---- MODULE Spec2Model ----
(***************************************************************************)
(* The BGP routing table of bgpd/bgp_table.c: a compressed binary trie of  *)
(* prefixes with per-node reference counts, a slab of node records and a   *)
(* lock-hand-off iterator.                                                 *)
(*                                                                         *)
(* Node records live in a slab and are named by their index (NULL is 0).   *)
(* A prefix is [family, prefixlen, b], b the address bytes in network      *)
(* order, as struct prefix.                                                *)
(***************************************************************************)
EXTENDS Integers, Sequences, FiniteSets, TLC

(***************************************************************************)
(* Bounds of the model.                                                    *)
(***************************************************************************)
\* records per pool: rn_pool_size scaled down
PoolSize == 2
\* pools bgp_node_calloc may allocate
MaxPools == 4
\* cap on any node's lock counter
MaxLock == 2
\* cap on the table's lock counter
MaxTableLock == 2

NULL == 0
AF_INET == 2
AddrBytes == 4
NRec == PoolSize * MaxPools
Recs == 1..NRec

(***************************************************************************)
(* Prefix primitives (lib/prefix.c, described in the specification's       *)
(* section 3.1).                                                           *)
(***************************************************************************)
Pow2(k) == 2^k

\* bitwise AND / XOR of two bytes
AndB(x, y) ==
  LET f[k \in 0..8] ==
        IF k = 8 THEN 0
        ELSE (((x \div Pow2(k)) % 2) * ((y \div Pow2(k)) % 2)) * Pow2(k) + f[k+1]
  IN f[0]

XorB(x, y) ==
  LET f[k \in 0..8] ==
        IF k = 8 THEN 0
        ELSE ((((x \div Pow2(k)) % 2) + ((y \div Pow2(k)) % 2)) % 2) * Pow2(k) + f[k+1]
  IN f[0]

\* u_char at C index i of an address; the bytes of the union past the
\* address are zero
ByteAt(b, i) == IF i + 1 <= Len(b) THEN b[i + 1] ELSE 0

\* bit n of the address, bit 0 the top bit of byte 0
prefix_bit(b, n) == (ByteAt(b, n \div 8) \div Pow2(7 - (n % 8))) % 2

\* n covers p: n is no longer than p and they agree on n's first bits
\* (whole bytes first, then the top bits of the byte the length ends in)
prefix_match(n, p) ==
  LET offset == n.prefixlen \div 8
      shift  == n.prefixlen % 8
  IN /\ n.prefixlen <= p.prefixlen
     /\ \A i \in 0..(offset - 1) : ByteAt(n.b, i) = ByteAt(p.b, i)
     /\ shift # 0 =>
          ByteAt(n.b, offset) \div Pow2(8 - shift) = ByteAt(p.b, offset) \div Pow2(8 - shift)

\* canonical form: every bit beyond the prefix length is zero
prefix_check(p) ==
  \A i \in p.prefixlen..(8 * AddrBytes - 1) : prefix_bit(p.b, i) = 0

Pfx(len, bytes) == [family |-> AF_INET, prefixlen |-> len, b |-> bytes]

ZeroPrefix == [family |-> 0, prefixlen |-> 0, b |-> <<0, 0, 0, 0>>]

(***************************************************************************)
(* struct bgp_node, zeroized as bgp_node_calloc returns it.  link[1] is    *)
(* l_left, link[2] is l_right.                                            *)
(***************************************************************************)
ZeroNode ==
  [ p       |-> ZeroPrefix,
    table   |-> NULL,
    parent  |-> NULL,
    link    |-> <<NULL, NULL>>,
    lock    |-> 0,
    info    |-> NULL,
    prn     |-> NULL,
    wq_next |-> NULL ]

l_left(nd, n)  == nd[n].link[1]
l_right(nd, n) == nd[n].link[2]

\* the one table of the model (its address, as stored in node->table)
TheTable == 1

(***************************************************************************)
(* The program state as one record, so that the functions of bgp_table.c   *)
(* are operators from heap to heap:                                        *)
(*   node   the slab's records         top, count  the table's fields      *)
(*   lock   the table's lock                                               *)
(*   frees  rn_frees                   pools       number of rn_pools      *)
(*   abort  an assertion has failed                                        *)
(***************************************************************************)
WithNode(h, nd) == [h EXCEPT !.node = nd]

\* the records of the next pool, chained as the loop of bgp_node_calloc
\* pushes them: each record's wq_next is the record pushed before it
PoolRecs(k) == (k * PoolSize + 1)..((k + 1) * PoolSize)

\* (variant: the record handed out stays at the head of rn_frees)
bgp_node_calloc_nopop(h) ==
  LET grow == h.frees = NULL
      base == h.pools * PoolSize
      nd1  == IF grow
              THEN [r \in Recs |->
                      IF r \in PoolRecs(h.pools)
                      THEN [ZeroNode EXCEPT
                              !.wq_next = IF r = base + 1 THEN h.frees ELSE r - 1]
                      ELSE h.node[r]]
              ELSE h.node
      rn   == IF grow THEN base + PoolSize ELSE h.frees
  IN [h  |-> [h EXCEPT !.node  = [nd1 EXCEPT ![rn] = ZeroNode],
                       !.frees = rn,
                       !.pools = IF grow THEN h.pools + 1 ELSE h.pools],
      rn |-> rn]

bgp_node_calloc(h) ==
  LET grow == h.frees = NULL
      base == h.pools * PoolSize
      nd1  == IF grow
              THEN [r \in Recs |->
                      IF r \in PoolRecs(h.pools)
                      THEN [ZeroNode EXCEPT
                              !.wq_next = IF r = base + 1 THEN h.frees ELSE r - 1]
                      ELSE h.node[r]]
              ELSE h.node
      rn   == IF grow THEN base + PoolSize ELSE h.frees
  IN [h  |-> [h EXCEPT !.node  = [nd1 EXCEPT ![rn] = ZeroNode],
                       !.frees = nd1[rn].wq_next,
                       !.pools = IF grow THEN h.pools + 1 ELSE h.pools],
      rn |-> rn]

\* A released record keeps only its free-list link: its other fields are dead
\* until bgp_node_calloc zeroizes the record, and are given no value here, so
\* that a read of any of them cannot be evaluated.
bgp_node_free(h, rn) ==
  [h EXCEPT !.node[rn] = [wq_next |-> h.frees], !.frees = rn]

\* records bgp_node_calloc can still hand out within the model's bounds
RECURSIVE FreeLen(_, _)
FreeLen(nd, r) == IF r = NULL THEN 0 ELSE 1 + FreeLen(nd, nd[r].wq_next)

Available(h) == FreeLen(h.node, h.frees) + (MaxPools - h.pools) * PoolSize

bgp_node_set(h, table, prefix) ==
  LET a == bgp_node_calloc(h)
  IN [h  |-> [a.h EXCEPT !.node[a.rn].p = prefix, !.node[a.rn].table = table],
      rn |-> a.rn]

(***************************************************************************)
(* route_common: the longest common prefix of n and p, written into new    *)
(* (the p field of a zeroized record).                                     *)
(***************************************************************************)
maskbit == <<0, 128, 192, 224, 240, 248, 252, 254, 255>>

\* the byte loop: first i < p->prefixlen / 8 with np[i] # pp[i]
RECURSIVE ByteScan(_, _, _, _)
ByteScan(np, pp, i, lim) ==
  IF i < lim /\ ByteAt(np, i) = ByteAt(pp, i) THEN ByteScan(np, pp, i + 1, lim) ELSE i

\* the bit loop: while (new->prefixlen < p->prefixlen && !(mask & diff))
RECURSIVE BitScan(_, _, _, _)
BitScan(len, mask, diff, plen) ==
  IF len < plen /\ AndB(mask, diff) = 0
  THEN BitScan(len + 1, mask \div 2, diff, plen)
  ELSE len

\* (variant: the last byte is copied without the mask)
route_common_nomask(n, p, new) ==
  LET i    == ByteScan(n.b, p.b, 0, p.prefixlen \div 8)
      b1   == [j \in 1..AddrBytes |-> IF j <= i THEN n.b[j] ELSE new.b[j]]
      len1 == i * 8
      len2 == BitScan(len1, 128, XorB(ByteAt(n.b, i), ByteAt(p.b, i)), p.prefixlen)
  IN IF len1 # p.prefixlen
     THEN [new EXCEPT !.prefixlen = len2, !.b = [b1 EXCEPT ![i + 1] = ByteAt(n.b, i)]]
     ELSE [new EXCEPT !.prefixlen = len1, !.b = b1]

\* (variant: the bit loop is left out, the length stays at the byte
\* boundary)
route_common_bytes(n, p, new) ==
  LET i  == ByteScan(n.b, p.b, 0, p.prefixlen \div 8)
      b1 == [j \in 1..AddrBytes |-> IF j <= i THEN n.b[j] ELSE new.b[j]]
  IN [new EXCEPT !.prefixlen = i * 8, !.b = b1]

route_common(n, p, new) ==
  LET i    == ByteScan(n.b, p.b, 0, p.prefixlen \div 8)
      b1   == [j \in 1..AddrBytes |-> IF j <= i THEN n.b[j] ELSE new.b[j]]
      len1 == i * 8
      len2 == BitScan(len1, 128, XorB(ByteAt(n.b, i), ByteAt(p.b, i)), p.prefixlen)
  IN IF len1 # p.prefixlen
     THEN [new EXCEPT !.prefixlen = len2,
                      !.b = [b1 EXCEPT ![i + 1] =
                                AndB(ByteAt(n.b, i), maskbit[(len2 % 8) + 1])]]
     ELSE [new EXCEPT !.prefixlen = len1, !.b = b1]

\* (variant: the slot is chosen by the parent's own bit)
set_link_ownbit(nd, node, new) ==
  LET bit == prefix_bit(nd[node].p.b, nd[node].p.prefixlen)
  IN [nd EXCEPT ![node].link[bit + 1] = new, ![new].parent = node]

set_link(nd, node, new) ==
  LET bit == prefix_bit(nd[new].p.b, nd[node].p.prefixlen)
  IN [nd EXCEPT ![node].link[bit + 1] = new, ![new].parent = node]

bgp_lock_node(nd, node) == [nd EXCEPT ![node].lock = @ + 1]

(***************************************************************************)
(* bgp_node_match, bgp_node_lookup: results are [h, ret].                  *)
(***************************************************************************)
\* the walk down of bgp_node_match: the last covering node with info
RECURSIVE MatchWalk(_, _, _, _)
MatchWalk(nd, n, p, matched) ==
  IF n # NULL /\ nd[n].p.prefixlen <= p.prefixlen /\ prefix_match(nd[n].p, p)
  THEN MatchWalk(nd, nd[n].link[prefix_bit(p.b, nd[n].p.prefixlen) + 1], p,
                 IF nd[n].info # NULL THEN n ELSE matched)
  ELSE matched

\* (variant: the first covering node with info is kept, not the last)
RECURSIVE MatchWalkFirst(_, _, _, _)
MatchWalkFirst(nd, n, p, matched) ==
  IF n # NULL /\ nd[n].p.prefixlen <= p.prefixlen /\ prefix_match(nd[n].p, p)
  THEN MatchWalkFirst(nd, nd[n].link[prefix_bit(p.b, nd[n].p.prefixlen) + 1], p,
                      IF nd[n].info # NULL /\ matched = NULL THEN n ELSE matched)
  ELSE matched

bgp_node_match_first(h, p) ==
  LET matched == MatchWalkFirst(h.node, h.top, p, NULL)
  IN IF matched # NULL
     THEN [h |-> WithNode(h, bgp_lock_node(h.node, matched)), ret |-> matched]
     ELSE [h |-> h, ret |-> NULL]

bgp_node_match(h, p) ==
  LET matched == MatchWalk(h.node, h.top, p, NULL)
  IN IF matched # NULL
     THEN [h |-> WithNode(h, bgp_lock_node(h.node, matched)), ret |-> matched]
     ELSE [h |-> h, ret |-> NULL]

RECURSIVE LookupWalk(_, _, _)
LookupWalk(nd, n, p) ==
  IF n # NULL /\ nd[n].p.prefixlen <= p.prefixlen /\ prefix_match(nd[n].p, p)
  THEN IF nd[n].p.prefixlen = p.prefixlen /\ nd[n].info # NULL
       THEN n
       ELSE LookupWalk(nd, nd[n].link[prefix_bit(p.b, nd[n].p.prefixlen) + 1], p)
  ELSE NULL

\* (variant: the node of p's length is returned whether or not it has info)
RECURSIVE LookupWalkAny(_, _, _)
LookupWalkAny(nd, n, p) ==
  IF n # NULL /\ nd[n].p.prefixlen <= p.prefixlen /\ prefix_match(nd[n].p, p)
  THEN IF nd[n].p.prefixlen = p.prefixlen
       THEN n
       ELSE LookupWalkAny(nd, nd[n].link[prefix_bit(p.b, nd[n].p.prefixlen) + 1], p)
  ELSE NULL

bgp_node_lookup_anyinfo(h, p) ==
  LET n == LookupWalkAny(h.node, h.top, p)
  IN IF n # NULL
     THEN [h |-> WithNode(h, bgp_lock_node(h.node, n)), ret |-> n]
     ELSE [h |-> h, ret |-> NULL]

bgp_node_lookup(h, p) ==
  LET n == LookupWalk(h.node, h.top, p)
  IN IF n # NULL
     THEN [h |-> WithNode(h, bgp_lock_node(h.node, n)), ret |-> n]
     ELSE [h |-> h, ret |-> NULL]

(***************************************************************************)
(* bgp_node_get: find or add the node of prefix p.                         *)
(***************************************************************************)
\* the walk down: stops at a node of p's length (hit), or at the first node
\* that does not cover p (node), match being the last node that did
\* (variant: a node of p's length is walked past, not taken as the hit)
RECURSIVE GetWalk_nohit(_, _, _, _)
GetWalk_nohit(nd, n, p, match) ==
  IF n # NULL /\ nd[n].p.prefixlen <= p.prefixlen /\ prefix_match(nd[n].p, p)
  THEN GetWalk_nohit(nd, nd[n].link[prefix_bit(p.b, nd[n].p.prefixlen) + 1], p, n)
  ELSE [hit |-> FALSE, node |-> n, match |-> match]

RECURSIVE GetWalk(_, _, _, _)
GetWalk(nd, n, p, match) ==
  IF n # NULL /\ nd[n].p.prefixlen <= p.prefixlen /\ prefix_match(nd[n].p, p)
  THEN IF nd[n].p.prefixlen = p.prefixlen
       THEN [hit |-> TRUE, node |-> n, match |-> match]
       ELSE GetWalk(nd, nd[n].link[prefix_bit(p.b, nd[n].p.prefixlen) + 1], p, n)
  ELSE [hit |-> FALSE, node |-> n, match |-> match]

\* if (match) set_link (match, new); else table->top = new;
LinkUnder(h, match, new) ==
  IF match # NULL
  THEN WithNode(h, set_link(h.node, match, new))
  ELSE [h EXCEPT !.top = new]

\* new->prn = prn; table->count++; bgp_lock_node (new); return new;
\* (variant: the new node is returned without a lock)
GetFinish_nolock(h, new, prn) ==
  [h   |-> [h EXCEPT !.node  = [h.node EXCEPT ![new].prn = prn],
                     !.count = @ + 1],
   ret |-> new]

GetFinish(h, new, prn) ==
  [h   |-> [h EXCEPT !.node  = bgp_lock_node([h.node EXCEPT ![new].prn = prn], new),
                     !.count = @ + 1],
   ret |-> new]

bgp_node_get(h, p, prn) ==
  LET w == GetWalk(h.node, h.top, p, NULL)
  IN IF w.hit
     THEN \* qassert(node->prn == prn); return bgp_lock_node (node);
          IF h.node[w.node].prn # prn
          THEN [h |-> [h EXCEPT !.abort = TRUE], ret |-> NULL]
          ELSE [h |-> WithNode(h, bgp_lock_node(h.node, w.node)), ret |-> w.node]
     ELSE IF w.node = NULL
     THEN LET a == bgp_node_set(h, TheTable, p)
          IN GetFinish(LinkUnder(a.h, w.match, a.rn), a.rn, prn)
     ELSE LET a   == bgp_node_calloc(h)
              new == a.rn
              nd1 == [a.h.node EXCEPT
                        ![new].p = [route_common(h.node[w.node].p, p, @)
                                      EXCEPT !.family = p.family],
                        ![new].table = TheTable]
              h2  == LinkUnder(WithNode(a.h, set_link(nd1, new, w.node)), w.match, new)
          IN IF h2.node[new].p.prefixlen # p.prefixlen
             THEN LET c  == bgp_node_set(h2, TheTable, p)
                      h3 == [c.h EXCEPT !.node  = set_link(c.h.node, new, c.rn),
                                        !.count = @ + 1]
                  IN GetFinish(h3, c.rn, prn)
             ELSE GetFinish(h2, new, prn)

\* the number of records the call takes from the slab
GetNeed(h, p) ==
  LET w == GetWalk(h.node, h.top, p, NULL)
  IN IF w.hit THEN 0
     ELSE IF w.node = NULL THEN 1
     ELSE IF route_common(h.node[w.node].p, p, ZeroPrefix).prefixlen # p.prefixlen
          THEN 2 ELSE 1

(***************************************************************************)
(* bgp_node_delete, bgp_unlock_node.                                       *)
(***************************************************************************)
\* (variant of DeleteUnlink: table->count is not decremented)
DeleteUnlink_keepcount(h, node) ==
  LET nd     == h.node
      child  == IF l_left(nd, node) # NULL THEN l_left(nd, node) ELSE l_right(nd, node)
      parent == nd[node].parent
      nd1    == IF child # NULL THEN [nd EXCEPT ![child].parent = parent] ELSE nd
      nd2    == IF parent # NULL
                THEN IF l_left(nd1, parent) = node
                     THEN [nd1 EXCEPT ![parent].link[1] = child]
                     ELSE [nd1 EXCEPT ![parent].link[2] = child]
                ELSE nd1
  IN bgp_node_free([h EXCEPT !.node  = nd2,
                             !.top   = IF parent # NULL THEN @ ELSE child], node)

\* the unlinking of bgp_node_delete, for a node with at most one child: the
\* child takes the node's place, the count drops, the record is released
DeleteUnlink(h, node) ==
  LET nd     == h.node
      child  == IF l_left(nd, node) # NULL THEN l_left(nd, node) ELSE l_right(nd, node)
      parent == nd[node].parent
      nd1    == IF child # NULL THEN [nd EXCEPT ![child].parent = parent] ELSE nd
      nd2    == IF parent # NULL
                THEN IF l_left(nd1, parent) = node
                     THEN [nd1 EXCEPT ![parent].link[1] = child]
                     ELSE [nd1 EXCEPT ![parent].link[2] = child]
                ELSE nd1
  IN bgp_node_free([h EXCEPT !.node  = nd2,
                             !.top   = IF parent # NULL THEN @ ELSE child,
                             !.count = @ - 1], node)

RECURSIVE bgp_node_delete(_, _)

\* (variant: the parent is left alone)
bgp_node_delete_norecurse(h, node) ==
  IF h.node[node].lock # 0 \/ h.node[node].info # NULL
  THEN [h EXCEPT !.abort = TRUE]
  ELSE IF l_left(h.node, node) # NULL /\ l_right(h.node, node) # NULL
  THEN h
  ELSE DeleteUnlink(h, node)

\* (variant: the test for two children looks at l_left only)
bgp_node_delete_leftkept(h, node) ==
  IF h.node[node].lock # 0 \/ h.node[node].info # NULL
  THEN [h EXCEPT !.abort = TRUE]
  ELSE IF l_left(h.node, node) # NULL
  THEN h
  ELSE LET parent == h.node[node].parent
           h2     == DeleteUnlink(h, node)
       IN IF parent # NULL /\ h2.node[parent].lock = 0
          THEN bgp_node_delete(h2, parent)
          ELSE h2

\* (variant: a node with any child is kept, not only one with two)
bgp_node_delete_anychild(h, node) ==
  IF h.node[node].lock # 0 \/ h.node[node].info # NULL
  THEN [h EXCEPT !.abort = TRUE]
  ELSE IF l_left(h.node, node) # NULL \/ l_right(h.node, node) # NULL
  THEN h
  ELSE LET parent == h.node[node].parent
           h2     == DeleteUnlink(h, node)
       IN IF parent # NULL /\ h2.node[parent].lock = 0
          THEN bgp_node_delete(h2, parent)
          ELSE h2

\* (variant: no test for two children)
bgp_node_delete_nocheck(h, node) ==
  IF h.node[node].lock # 0 \/ h.node[node].info # NULL
  THEN [h EXCEPT !.abort = TRUE]
  ELSE LET parent == h.node[node].parent
           h2     == DeleteUnlink(h, node)
       IN IF parent # NULL /\ h2.node[parent].lock = 0
          THEN bgp_node_delete(h2, parent)
          ELSE h2

bgp_node_delete(h, node) ==
  IF h.node[node].lock # 0 \/ h.node[node].info # NULL
  THEN [h EXCEPT !.abort = TRUE]
  ELSE IF l_left(h.node, node) # NULL /\ l_right(h.node, node) # NULL
  THEN h
  ELSE LET parent == h.node[node].parent
           h2     == DeleteUnlink(h, node)
       IN IF parent # NULL /\ h2.node[parent].lock = 0
          THEN bgp_node_delete(h2, parent)
          ELSE h2

\* (variant: the node is kept when its lock drops to zero)
bgp_unlock_node_nodelete(h, node) ==
  IF ~(h.node[node].lock > 0)
  THEN [h EXCEPT !.abort = TRUE]
  ELSE WithNode(h, [h.node EXCEPT ![node].lock = @ - 1])

bgp_unlock_node(h, node) ==
  IF ~(h.node[node].lock > 0)
  THEN [h EXCEPT !.abort = TRUE]
  ELSE LET h1 == WithNode(h, [h.node EXCEPT ![node].lock = @ - 1])
       IN IF h1.node[node].lock = 0 THEN bgp_node_delete(h1, node) ELSE h1

(***************************************************************************)
(* Iteration: bgp_table_top, bgp_route_next, bgp_route_next_until.         *)
(***************************************************************************)
bgp_table_top(h) ==
  IF h.top = NULL
  THEN [h |-> h, ret |-> NULL]
  ELSE [h |-> WithNode(h, bgp_lock_node(h.node, h.top)), ret |-> h.top]

\* the loop "while (node->parent && node != limit)": the right sibling of
\* the first ancestor-or-self that is a left child with one, or NULL.
\* bgp_route_next has no limit test: it passes NULL, which no node equals.
\* (variant: the ascent looks at the parent only)
Ascend_onelevel(nd, node, limit) ==
  IF /\ nd[node].parent # NULL /\ node # limit
     /\ l_left(nd, nd[node].parent) = node /\ l_right(nd, nd[node].parent) # NULL
  THEN l_right(nd, nd[node].parent)
  ELSE NULL

\* (variant: the ascent does not stop at limit)
RECURSIVE Ascend_nolimit(_, _, _)
Ascend_nolimit(nd, node, limit) ==
  IF nd[node].parent # NULL
  THEN IF l_left(nd, nd[node].parent) = node /\ l_right(nd, nd[node].parent) # NULL
       THEN l_right(nd, nd[node].parent)
       ELSE Ascend_nolimit(nd, nd[node].parent, limit)
  ELSE NULL

RECURSIVE Ascend(_, _, _)
Ascend(nd, node, limit) ==
  IF nd[node].parent # NULL /\ node # limit
  THEN IF l_left(nd, nd[node].parent) = node /\ l_right(nd, nd[node].parent) # NULL
       THEN l_right(nd, nd[node].parent)
       ELSE Ascend(nd, nd[node].parent, limit)
  ELSE NULL

\* (variant: the node handed in is returned, not the next one)
HandOff_returnsnode(h, node, next) ==
  [h   |-> bgp_unlock_node(IF next # NULL
                           THEN WithNode(h, bgp_lock_node(h.node, next))
                           ELSE h, node),
   ret |-> IF next # NULL THEN node ELSE NULL]

\* bgp_lock_node (next); bgp_unlock_node (node); return next;
\* (variant: the next node is returned without a lock)
HandOff_nolock(h, node, next) ==
  [h |-> bgp_unlock_node(h, node), ret |-> next]

HandOff(h, node, next) ==
  [h   |-> bgp_unlock_node(IF next # NULL
                           THEN WithNode(h, bgp_lock_node(h.node, next))
                           ELSE h, node),
   ret |-> next]

bgp_route_next(h, node) ==
  IF l_left(h.node, node) # NULL THEN HandOff(h, node, l_left(h.node, node))
  ELSE IF l_right(h.node, node) # NULL THEN HandOff(h, node, l_right(h.node, node))
  ELSE HandOff(h, node, Ascend(h.node, node, NULL))

bgp_route_next_until(h, node, limit) ==
  IF l_left(h.node, node) # NULL THEN HandOff(h, node, l_left(h.node, node))
  ELSE IF l_right(h.node, node) # NULL THEN HandOff(h, node, l_right(h.node, node))
  ELSE HandOff(h, node, Ascend(h.node, node, limit))

(***************************************************************************)
(* State.  The program's: node, top, count, rn_frees, rn_pools, abort.     *)
(* The callers': held[n] is the number of handles on record n that callers *)
(* keep (from get, lookup, match, lock), iter the iterator's node.         *)
(* op, arg, ret record the last call, its argument and what it returned.   *)
(* phase, visited, inserted are used by the walk scenarios.                *)
(***************************************************************************)
VARIABLES node, top, count, table_lock, rn_frees, rn_pools, abort,
          held, iter, op, arg, ret, phase, visited, inserted

vars == <<node, top, count, table_lock, rn_frees, rn_pools, abort,
          held, iter, op, arg, ret, phase, visited, inserted>>

Heap == [node |-> node, top |-> top, count |-> count, lock |-> table_lock,
         frees |-> rn_frees, pools |-> rn_pools, abort |-> abort]

SetHeap(h) ==
  /\ node' = h.node
  /\ top' = h.top
  /\ count' = h.count
  /\ table_lock' = h.lock
  /\ rn_frees' = h.frees
  /\ rn_pools' = h.pools
  /\ abort' = h.abort

NoArg == [none |-> TRUE]

Called(o, a, r) == op' = o /\ arg' = a /\ ret' = r

\* the prefixes the callers of the general specification present
P10     == Pfx(8,  <<10, 0, 0, 0>>)
P11     == Pfx(8,  <<11, 0, 0, 0>>)
P10_128 == Pfx(9,  <<10, 128, 0, 0>>)
P10_1   == Pfx(16, <<10, 1, 0, 0>>)
P10_7   == Pfx(7,  <<10, 0, 0, 0>>)
P20     == Pfx(8,  <<20, 0, 0, 0>>)
P30     == Pfx(8,  <<30, 0, 0, 0>>)
P40     == Pfx(8,  <<40, 0, 0, 0>>)
Q10_1   == Pfx(32, <<10, 1, 2, 3>>)
Q11_2   == Pfx(32, <<11, 2, 2, 3>>)

ApiPrefixes == {P10, P10_128, P10_1}
WalkPrefixes == {P10, P10_128, P10_1, P20, P30, P40}
DeepPrefixes == {P10_7, P10, P11, P20}
ApiQueries  == ApiPrefixes \cup {Q10_1, Q11_2}

InitCommon ==
  /\ node = [r \in Recs |-> ZeroNode]
  /\ top = NULL
  /\ count = 0
  /\ table_lock = 1
  /\ rn_frees = NULL
  /\ rn_pools = 0
  /\ abort = FALSE
  /\ held = [r \in Recs |-> 0]
  /\ iter = NULL
  /\ op = "init" /\ arg = NoArg /\ ret = NULL
  /\ visited = <<>>
  /\ inserted = {}

Init == InitCommon /\ phase = "api"

Scenario == UNCHANGED <<phase, visited, inserted>>

\* a returned handle the caller keeps
Keep(r) == IF r = NULL THEN held' = held ELSE held' = [held EXCEPT ![r] = @ + 1]

Get(p) ==
  /\ ~abort
  /\ GetNeed(Heap, p) <= Available(Heap)
  /\ LET r == bgp_node_get(Heap, p, NULL)
     IN /\ r.h.node[r.ret].lock <= MaxLock
        /\ SetHeap(r.h)
        /\ Keep(r.ret)
        /\ Called("get", p, r.ret)
  /\ UNCHANGED iter

Lock(n) ==
  /\ ~abort
  /\ held[n] > 0
  /\ node[n].lock < MaxLock
  /\ SetHeap(WithNode(Heap, bgp_lock_node(node, n)))
  /\ held' = [held EXCEPT ![n] = @ + 1]
  /\ Called("lock", n, n)
  /\ UNCHANGED iter

\* a caller gives up one of its handles; the node's info is cleared before
\* the last of them goes
Unlock(n) ==
  /\ ~abort
  /\ held[n] > 0
  /\ node[n].info # NULL => held[n] >= 2
  /\ SetHeap(bgp_unlock_node(Heap, n))
  /\ held' = [held EXCEPT ![n] = @ - 1]
  /\ Called("unlock", n, NULL)
  /\ UNCHANGED iter

SetInfo(n) ==
  /\ ~abort
  /\ held[n] > 0
  /\ node[n].info = NULL
  /\ node' = [node EXCEPT ![n].info = 1]
  /\ Called("set_info", n, NULL)
  /\ UNCHANGED <<top, count, table_lock, rn_frees, rn_pools, abort, held, iter>>

ClearInfo(n) ==
  /\ ~abort
  /\ held[n] > 0
  /\ node[n].info # NULL
  /\ node' = [node EXCEPT ![n].info = NULL]
  /\ Called("clear_info", n, NULL)
  /\ UNCHANGED <<top, count, table_lock, rn_frees, rn_pools, abort, held, iter>>

Lookup(p) ==
  /\ ~abort
  /\ LET r == bgp_node_lookup(Heap, p)
     IN /\ r.ret # NULL => r.h.node[r.ret].lock <= MaxLock
        /\ SetHeap(r.h)
        /\ Keep(r.ret)
        /\ Called("lookup", p, r.ret)
  /\ UNCHANGED iter

Match(p) ==
  /\ ~abort
  /\ LET r == bgp_node_match(Heap, p)
     IN /\ r.ret # NULL => r.h.node[r.ret].lock <= MaxLock
        /\ SetHeap(r.h)
        /\ Keep(r.ret)
        /\ Called("match", p, r.ret)
  /\ UNCHANGED iter

Top ==
  /\ ~abort
  /\ iter = NULL
  /\ LET r == bgp_table_top(Heap)
     IN /\ r.ret # NULL => r.h.node[r.ret].lock <= MaxLock
        /\ SetHeap(r.h)
        /\ iter' = r.ret
        /\ Called("top", NoArg, r.ret)
  /\ UNCHANGED held

RouteNext ==
  /\ ~abort
  /\ iter # NULL
  /\ LET r == bgp_route_next(Heap, iter)
     IN /\ r.ret # NULL => node[r.ret].lock < MaxLock
        /\ SetHeap(r.h)
        /\ iter' = r.ret
        /\ Called("next", iter, r.ret)
  /\ UNCHANGED held

(***************************************************************************)
(* The trie as the links present it, for the callers and the properties.   *)
(***************************************************************************)
\* the nodes of the subtree rooted at n (the recursion is cut at depth d,
\* so that it ends on a damaged structure too)
RECURSIVE SubtreeD(_, _, _)
SubtreeD(nd, n, d) ==
  IF n = NULL \/ d = 0 THEN {}
  ELSE {n} \cup SubtreeD(nd, l_left(nd, n), d - 1) \cup SubtreeD(nd, l_right(nd, n), d - 1)

Subtree(nd, n) == SubtreeD(nd, n, NRec + 1)

Linked == Subtree(node, top)

\* pre-order: a node, its left subtree, its right subtree
RECURSIVE PreOrderD(_, _, _)
PreOrderD(nd, n, d) ==
  IF n = NULL \/ d = 0 THEN <<>>
  ELSE <<n>> \o PreOrderD(nd, l_left(nd, n), d - 1) \o PreOrderD(nd, l_right(nd, n), d - 1)

PreOrder(nd, n) == PreOrderD(nd, n, NRec + 1)

\* the iterator steps inside the subtree of a node the caller holds
RouteNextUntil(limit) ==
  /\ ~abort
  /\ iter # NULL
  /\ held[limit] > 0
  /\ iter \in Subtree(node, limit)
  /\ LET r == bgp_route_next_until(Heap, iter, limit)
     IN /\ r.ret # NULL => node[r.ret].lock < MaxLock
        /\ SetHeap(r.h)
        /\ iter' = r.ret
        /\ Called("next_until", <<iter, limit>>, r.ret)
  /\ UNCHANGED held

\* bgp_node_get immediately followed by bgp_unlock_node of what it returned
GetUnlock(p) ==
  /\ ~abort
  /\ GetNeed(Heap, p) <= Available(Heap)
  /\ LET r == bgp_node_get(Heap, p, NULL)
     IN /\ r.h.node[r.ret].lock <= MaxLock
        /\ SetHeap(bgp_unlock_node(r.h, r.ret))
        /\ Called("get_unlock", p, r.ret)
  /\ UNCHANGED <<held, iter>>

Next ==
  /\ phase = "api"
  /\ Scenario
  /\ \/ \E p \in ApiPrefixes : Get(p)
     \/ \E n \in Recs : Lock(n)
     \/ \E n \in Recs : Unlock(n)
     \/ Top
     \/ RouteNext
     \/ \E n \in Recs : RouteNextUntil(n)
     \/ \E p \in ApiPrefixes : GetUnlock(p)

Spec == Init /\ [][Next]_vars

\* the table under callers that set and clear info and query by prefix
NextInfo ==
  /\ phase = "api"
  /\ Scenario
  /\ \/ \E p \in ApiPrefixes : Get(p)
     \/ \E n \in Recs : Unlock(n)
     \/ \E n \in Recs : SetInfo(n)
     \/ \E n \in Recs : ClearInfo(n)
     \/ \E p \in ApiQueries : Lookup(p)
     \/ \E p \in ApiQueries : Match(p)

SpecInfo == Init /\ [][NextInfo]_vars

(***************************************************************************)
(* bgp_table_check: the debug walk over the whole table.  The result is    *)
(* the count left over, or -1 once a qassert has failed.                   *)
(***************************************************************************)
RECURSIVE bgp_table_node_check(_, _, _, _)
bgp_table_node_check(nd, rn, cnt, d) ==
  IF d = 0 \/ cnt <= 0 \/ ~prefix_check(nd[rn].p) THEN -1
  ELSE LET Child(bit, c) ==
             LET cn == nd[rn].link[bit + 1]
             IN IF c < 0 \/ cn = NULL THEN c
                ELSE IF /\ rn = nd[cn].parent
                        /\ nd[rn].p.prefixlen < nd[cn].p.prefixlen
                        /\ prefix_match(nd[rn].p, nd[cn].p)
                        /\ bit = prefix_bit(nd[cn].p.b, nd[rn].p.prefixlen)
                     THEN bgp_table_node_check(nd, cn, c, d - 1)
                     ELSE -1
       IN Child(1, Child(0, cnt - 1))

bgp_table_check(h) ==
  (IF h.top # NULL THEN bgp_table_node_check(h.node, h.top, h.count, NRec + 1)
                   ELSE h.count) = 0

(***************************************************************************)
(* C1: after any sequence of bgp_node_get, bgp_lock_node and               *)
(* bgp_unlock_node calls, every node of the trie has a canonical prefix,   *)
(* and for every child in slot link[b] of a node: the child's parent is    *)
(* that node, the child's prefix is longer, the node's prefix covers the   *)
(* child's, and b is the child's bit at the node's prefix length.          *)
(***************************************************************************)
C1_Structure ==
  /\ ~abort
  /\ top # NULL => node[top].parent = NULL
  /\ \A rn \in Linked :
       /\ prefix_check(node[rn].p)
       /\ \A bit \in {0, 1} :
            LET cn == node[rn].link[bit + 1]
            IN cn # NULL =>
                 /\ node[cn].parent = rn
                 /\ node[cn].p.prefixlen > node[rn].p.prefixlen
                 /\ prefix_match(node[rn].p, node[cn].p)
                 /\ prefix_bit(node[cn].p.b, node[rn].p.prefixlen) = bit

\* an unlock has left a trie of three nodes under a glue node nobody holds
C1_Witness ==
  /\ op = "unlock"
  /\ count = 3
  /\ top # NULL
  /\ node[top].lock = 0
  /\ l_left(node, top) # NULL /\ l_right(node, top) # NULL

(***************************************************************************)
(* C2: between calls, table.count is the number of nodes reachable from    *)
(* table.top, glue nodes included.                                         *)
(***************************************************************************)
C2_Count == count = Cardinality(Linked) /\ bgp_table_check(Heap)

\* the iterator has stepped in a trie that holds a glue node
C2_Witness ==
  /\ op \in {"next", "next_until"}
  /\ count >= 3
  /\ \E g \in Linked : node[g].lock = 0

(***************************************************************************)
(* C3: bgp_node_match(table, q) returns the node of greatest prefix length *)
(* among the trie's nodes that have info and cover q, with that node's     *)
(* lock raised by one and nothing else changed; it returns NULL and        *)
(* changes nothing exactly when there is no such node.                     *)
(***************************************************************************)
Covering(q) ==
  {n \in Linked : node[n].info # NULL /\ prefix_match(node[n].p, q)}

C3_Match ==
  [][op' = "match" =>
       LET cover == Covering(arg')
       IN /\ UNCHANGED <<top, count, rn_frees, rn_pools, abort>>
          /\ IF cover = {}
             THEN ret' = NULL /\ node' = node
             ELSE /\ ret' \in cover
                  /\ \A m \in cover : node[m].p.prefixlen <= node[ret'].p.prefixlen
                  /\ node' = [node EXCEPT ![ret'].lock = @ + 1]]_vars

\* 10.1.2.3/32 matched the /16, the longer of two covering nodes with info
C3_Witness ==
  /\ op = "match"
  /\ arg = Q10_1
  /\ ret # NULL
  /\ node[ret].p = P10_1
  /\ \E m \in Linked : node[m].p = P10 /\ node[m].info # NULL

(***************************************************************************)
(* C4: bgp_node_lookup(table, p) returns a node, its lock raised by one,   *)
(* if and only if the trie holds a node whose prefix is exactly p and      *)
(* whose info is not null; otherwise it returns NULL and changes nothing   *)
(* (so for a glue node, a held node without info, a deleted node).         *)
(***************************************************************************)
Exact(p) == {n \in Linked : node[n].p = p /\ node[n].info # NULL}

C4_Lookup ==
  [][op' = "lookup" =>
       /\ UNCHANGED <<top, count, rn_frees, rn_pools, abort>>
       /\ IF Exact(arg') = {}
          THEN ret' = NULL /\ node' = node
          ELSE /\ ret' \in Exact(arg')
               /\ node' = [node EXCEPT ![ret'].lock = @ + 1]]_vars

\* the lookup of 10.0.0.0/8 found nothing although the trie holds that
\* prefix, as a glue node nobody holds
C4_Witness ==
  /\ op = "lookup"
  /\ arg = P10
  /\ ret = NULL
  /\ \E g \in Linked : node[g].p = P10 /\ node[g].lock = 0

(***************************************************************************)
(* C5: bgp_node_get(table, p, prn) returns a node linked in the trie whose *)
(* prefix is p, bit for bit, and whose lock is one more than before (1 if  *)
(* the call created it).  The count grows by 0 if a node of prefix p was   *)
(* there (a glue node nobody holds included), by 1 if only the returned    *)
(* node is new (a leaf in an empty slot, or the spliced glue node being    *)
(* the requested one), by 2 if a glue node and a leaf are new.  No other   *)
(* node's lock changes.                                                    *)
(***************************************************************************)
NodesOf(p) == {n \in Linked : node[n].p = p}

Children(nd, n) == {c \in {l_left(nd, n), l_right(nd, n)} : c # NULL}

C5_Get ==
  [][op' = "get" =>
       LET new == Subtree(node', top') \ Linked
       IN /\ ret' \in Subtree(node', top')
          /\ node'[ret'].p = arg'
          /\ Linked \subseteq Subtree(node', top')
          /\ \A n \in Linked \ {ret'} : node'[n].lock = node[n].lock
          /\ count' = count + Cardinality(new)
          /\ IF NodesOf(arg') # {}
             THEN /\ ret' \in NodesOf(arg')
                  /\ node'[ret'].lock = node[ret'].lock + 1
                  /\ new = {}
             ELSE /\ node'[ret'].lock = 1
                  /\ \/ new = {ret'}
                     \/ /\ Cardinality(new) = 2
                        /\ node'[ret'].parent \in new \ {ret'}
                        /\ node'[node'[ret'].parent].lock = 0
                        /\ Children(node', ret') = {}
                        /\ Cardinality(Children(node', node'[ret'].parent)) = 2]_vars

\* the get of 10.1.0.0/16 beside 10.128.0.0/9 made the glue node 10.0.0.0/8
\* and, under it, the leaf returned
C5_Witness ==
  /\ op = "get"
  /\ arg = P10_1
  /\ node[ret].lock = 1
  /\ node[ret].parent # NULL
  /\ node[node[ret].parent].lock = 0
  /\ node[node[ret].parent].p = P10
  /\ Cardinality(Children(node, node[ret].parent)) = 2

(***************************************************************************)
(* C6: bgp_route_next(n) takes one lock off n and, if it returns a node m, *)
(* puts one lock on m; no other surviving node's lock changes.  So every   *)
(* node's lock is the number of handles the callers keep on it, plus one   *)
(* on the node the iterator is at: the walk holds one lock at a time and   *)
(* leaves none behind when it ends with NULL.                              *)
(***************************************************************************)
LockAccount ==
  \A n \in Linked : node[n].lock = held[n] + (IF iter = n THEN 1 ELSE 0)

C6_HandOff ==
  [][/\ LockAccount'
     /\ op' = "next" =>
          LET n == arg'
              m == ret'
              after == Subtree(node', top')
          IN /\ after \subseteq Linked
             /\ IF n \in after THEN node'[n].lock = node[n].lock - 1
                               ELSE node[n].lock = 1
             /\ m # NULL => m \in after /\ m # n /\ node'[m].lock = node[m].lock + 1
             /\ \A x \in after \ {n, m} : node'[x].lock = node[x].lock]_vars

\* the step released the last lock of the node it was handed, which is
\* gone, and returned the next node
C6_Witness ==
  /\ op = "next"
  /\ ret # NULL
  /\ arg \notin Linked
  /\ iter = ret
  /\ node[ret].lock = held[ret] + 1

(***************************************************************************)
(* C9: bgp_node_get(table, p, prn) immediately followed by bgp_unlock_node *)
(* of the node returned restores the table: the same count and top, the    *)
(* same nodes with the same links and locks.                               *)
(***************************************************************************)
C9_GetUnlock ==
  [][op' = "get_unlock" =>
       /\ count' = count
       /\ top' = top
       /\ Subtree(node', top') = Linked
       /\ \A n \in Linked : node'[n] = node[n]]_vars

\* 10.1.0.0/16 was got and released in a table that holds 10.128.0.0/9 and no
\* node for it: the get made a glue node and a leaf, the unlock took both
C9_Witness ==
  /\ op = "get_unlock"
  /\ arg = P10_1
  /\ ret \notin Linked
  /\ NodesOf(P10_128) # {}
  /\ NodesOf(P10_1) = {}
  /\ NodesOf(P10) = {}

\* gets and unlocks on prefixes that put glue nodes at two levels
NextDeep ==
  /\ phase = "api"
  /\ Scenario
  /\ \/ \E p \in DeepPrefixes : Get(p)
     \/ \E n \in Recs : Unlock(n)

SpecDeep == Init /\ [][NextDeep]_vars

(***************************************************************************)
(* C10: when bgp_unlock_node drops to zero the lock of a node with at most *)
(* one child, the node is unlinked: its child, if any, takes its slot and  *)
(* its parent.  If the parent then has lock 0 and fewer than two children, *)
(* it is unlinked too, and the node's sibling takes the parent's slot      *)
(* under the grandparent, or becomes table.top.  The recursion stops at    *)
(* the first ancestor with two children or a lock: one call removes at     *)
(* most two nodes.  A node whose lock stays above zero, or that has two    *)
(* children, is not unlinked.                                              *)
(***************************************************************************)
\* the slot of node par (or table.top, for NULL) that holds x
SlotHolds(nd, tp, par, x) ==
  IF par = NULL THEN tp = x ELSE x \in {l_left(nd, par), l_right(nd, par)}

Only(S) == IF S = {} THEN NULL ELSE CHOOSE x \in S : TRUE

C10_Collapse ==
  [][op' = "unlock" =>
       LET n       == arg'
           kids    == Children(node, n)
           par     == node[n].parent
           after   == Subtree(node', top')
           removed == Linked \ after
           parKids == IF par = NULL THEN {} ELSE (Children(node, par) \ {n}) \cup kids
           parGone == /\ par # NULL
                      /\ node[par].lock = 0
                      /\ Cardinality(parKids) < 2
           c       == Only(kids)
           sib     == Only(parKids)
           gp      == IF par = NULL THEN NULL ELSE node[par].parent
       IN /\ after \subseteq Linked
          /\ count - count' = Cardinality(removed)
          /\ Cardinality(removed) <= 2
          /\ IF node[n].lock > 1 \/ Cardinality(kids) = 2
             THEN /\ node' = [node EXCEPT ![n].lock = @ - 1]
                  /\ top' = top
                  /\ removed = {}
             ELSE /\ removed = {n} \cup (IF parGone THEN {par} ELSE {})
                  /\ IF parGone
                     THEN /\ SlotHolds(node', top', gp, sib)
                          /\ sib # NULL => node'[sib].parent = gp
                          /\ gp # NULL =>
                               Children(node', gp) = (Children(node, gp) \ {par}) \cup {sib}
                     ELSE /\ SlotHolds(node', top', par, c)
                          /\ c # NULL => node'[c].parent = par
                          /\ par # NULL => Children(node', par) = parKids
                  /\ \A x \in after \ {c, sib, par, gp} : node'[x] = node[x]]_vars

\* the unlock released the node and then its parent, and stopped at the
\* grandparent, a glue node nobody holds that keeps two children
C10_Witness ==
  /\ op = "unlock"
  /\ rn_frees # NULL
  /\ rn_frees # arg
  /\ node[rn_frees].wq_next = arg
  /\ top # NULL
  /\ node[top].lock = 0
  /\ count = 3

(***************************************************************************)
(* The walk scenarios.  A caller inserts prefixes, each once, keeping the  *)
(* handle and setting info; then one walk goes from bgp_table_top to NULL. *)
(* visited is the prefixes of the nodes the walk returned, in order.       *)
(***************************************************************************)
InitWalk == InitCommon /\ phase = "build"

\* bgp_node_get of a new prefix, and info set on the node returned
Insert(p) ==
  /\ ~abort
  /\ phase = "build"
  /\ p \notin inserted
  /\ GetNeed(Heap, p) <= Available(Heap)
  /\ LET r == bgp_node_get(Heap, p, NULL)
     IN /\ SetHeap([r.h EXCEPT !.node[r.ret].info = 1])
        /\ Keep(r.ret)
        /\ Called("get", p, r.ret)
  /\ inserted' = inserted \cup {p}
  /\ UNCHANGED <<iter, phase, visited>>

\* what the walk records of a returned node, and where it goes next
Returned(nd, r) ==
  /\ visited' = IF r = NULL THEN visited ELSE Append(visited, nd[r].p)
  /\ phase' = IF r = NULL THEN "done" ELSE "walk"

WalkTop ==
  /\ ~abort
  /\ phase = "build"
  /\ LET r == bgp_table_top(Heap)
     IN /\ SetHeap(r.h)
        /\ iter' = r.ret
        /\ Called("top", NoArg, r.ret)
        /\ Returned(r.h.node, r.ret)
  /\ UNCHANGED <<held, inserted>>

\* the step of a walk that leaves the table alone
WalkNext ==
  /\ ~abort
  /\ phase = "walk"
  /\ LET r == bgp_route_next(Heap, iter)
     IN /\ SetHeap(r.h)
        /\ iter' = r.ret
        /\ Called("next", iter, r.ret)
        /\ Returned(r.h.node, r.ret)
  /\ UNCHANGED <<held, inserted>>

NextWalk == (\E p \in WalkPrefixes : Insert(p)) \/ WalkTop \/ WalkNext

SpecWalk == InitWalk /\ [][NextWalk]_vars

\* the walk that deletes: on a returned node that carries info, the caller
\* clears info and releases the handle it got from bgp_node_get ...
DelRelease ==
  /\ ~abort
  /\ phase = "walk"
  /\ node[iter].info # NULL
  /\ held[iter] > 0
  /\ SetHeap(bgp_unlock_node(WithNode(Heap, [node EXCEPT ![iter].info = NULL]), iter))
  /\ held' = [held EXCEPT ![iter] = @ - 1]
  /\ Called("unlock", iter, NULL)
  /\ UNCHANGED <<iter, phase, visited, inserted>>

\* ... and only then steps on
DelNext ==
  /\ phase = "walk"
  /\ node[iter].info = NULL
  /\ WalkNext

NextDel == (\E p \in WalkPrefixes : Insert(p)) \/ WalkTop \/ DelRelease \/ DelNext

SpecDel == InitWalk /\ [][NextDel]_vars

(***************************************************************************)
(* C7: on a table the walk does not change, bgp_table_top and then         *)
(* bgp_route_next return every node of the trie once, in pre-order, and    *)
(* NULL after table.count nodes; so every inserted prefix is visited       *)
(* exactly once, whatever the order of insertion.                          *)
(***************************************************************************)
PreOrderPrefixes == [i \in 1..Len(PreOrder(node, top)) |-> node[PreOrder(node, top)[i]].p]

Times(seq, x) == Cardinality({i \in 1..Len(seq) : seq[i] = x})

C7_PreOrder ==
  /\ ~abort
  /\ phase = "walk" =>
       /\ iter \in Linked
       /\ Len(visited) <= count
       /\ visited = SubSeq(PreOrderPrefixes, 1, Len(visited))
       /\ node[iter].p = visited[Len(visited)]
  /\ phase = "done" =>
       /\ Len(visited) = count
       /\ visited = PreOrderPrefixes
       /\ \A p \in inserted : Times(visited, p) = 1
       /\ \A n \in Linked : node[n].lock = held[n]

\* a walk over five inserted prefixes and the glue nodes between them has
\* ended
C7_Witness ==
  /\ phase = "done"
  /\ Cardinality(inserted) = 5
  /\ count >= 7
  /\ Len(visited) = count

(***************************************************************************)
(* C8: prefixes are inserted once each and given info.  In a walk where    *)
(* the caller, on every returned node that carries info, clears info and   *)
(* releases the get-lock before it calls bgp_route_next, every inserted    *)
(* prefix is returned exactly once, no node is returned twice, the walk    *)
(* ends with NULL, and then table.count = 0 and table.top = NULL.          *)
(***************************************************************************)
C8_WalkDelete ==
  /\ ~abort
  /\ \A i, j \in 1..Len(visited) : visited[i] = visited[j] => i = j
  /\ phase = "walk" =>
       \* the walk can go on: the node it is at is live, and the caller
       \* holds the handle it has to release
       /\ iter \in Linked
       /\ node[iter].lock >= 1
       /\ node[iter].info # NULL => held[iter] > 0
  /\ phase = "done" =>
       /\ \A p \in inserted : Times(visited, p) = 1
       /\ count = 0
       /\ top = NULL
       /\ iter = NULL
       /\ ret = NULL

\* the scenario of the specification: the /8 prefixes 10, 20, 30 and 40
C8_Witness ==
  /\ phase = "done"
  /\ inserted = {P10, P20, P30, P40}
  /\ Len(visited) = 7
  /\ count = 0

(***************************************************************************)
(* C11: the trie depends on the set of prefixes inserted, not on the order *)
(* of the bgp_node_get calls: after any order of insertion into an empty   *)
(* table (nodes kept locked) the node prefixes, the parent, left and right *)
(* links, the top and table.count are those of one reference order.        *)
(***************************************************************************)
EmptyHeap ==
  [node |-> [r \in Recs |-> ZeroNode], top |-> NULL, count |-> 0, lock |-> 1,
   frees |-> NULL, pools |-> 0, abort |-> FALSE]

\* the prefix of a node, ZeroPrefix (family 0) standing for no node
PrefixOf(nd, n) ==
  IF n = NULL THEN ZeroPrefix
  ELSE [family    |-> nd[n].p.family,
        prefixlen |-> nd[n].p.prefixlen,
        b         |-> <<nd[n].p.b[1], nd[n].p.b[2], nd[n].p.b[3], nd[n].p.b[4]>>]

\* the trie without the identity of its records
Shape(h) ==
  [top   |-> PrefixOf(h.node, h.top),
   count |-> h.count,
   nodes |-> {[p      |-> PrefixOf(h.node, n),
               parent |-> PrefixOf(h.node, h.node[n].parent),
               left   |-> PrefixOf(h.node, l_left(h.node, n)),
               right  |-> PrefixOf(h.node, l_right(h.node, n))] :
              n \in Subtree(h.node, h.top)}]

\* the table after the gets of the prefixes of S in one fixed order
RECURSIVE BuildRef(_)
BuildRef(S) ==
  IF S = {} THEN EmptyHeap
  ELSE LET p == CHOOSE q \in S : TRUE
       IN bgp_node_get(BuildRef(S \ {p}), p, NULL).h

C11_Canonical ==
  /\ ~abort
  /\ phase = "build" => Shape(Heap) = Shape(BuildRef(inserted))

\* 10.0.0.0/8 came last, onto the glue node that 10.128.0.0/9 and
\* 10.1.0.0/16 had made, in a table of five prefixes
C11_Witness ==
  /\ phase = "build"
  /\ op = "get"
  /\ arg = P10
  /\ Cardinality(inserted) = 5
  /\ node[ret].lock = 1
  /\ Cardinality(Children(node, ret)) = 2

(***************************************************************************)
(* The table's life: bgp_table_init, bgp_table_lock, bgp_table_unlock,     *)
(* bgp_table_finish, bgp_table_free.                                       *)
(***************************************************************************)
\* rt->lock = -54321, written by bgp_table_free before the XFREE
TableFreed == -54321

\* XCALLOC of a zeroed struct bgp_table, then bgp_table_lock
bgp_table_init(h) == [h EXCEPT !.top = NULL, !.count = 0, !.lock = 1]

bgp_table_lock(h) == [h EXCEPT !.lock = @ + 1]

\* (variant of the loop of bgp_table_free: a leaf that is still locked is
\* taken off its parent but neither counted nor released)
RECURSIVE FreeWalk_keeplocked(_, _)
FreeWalk_keeplocked(h, n) ==
  IF n = NULL THEN h
  ELSE IF l_left(h.node, n) # NULL THEN FreeWalk_keeplocked(h, l_left(h.node, n))
  ELSE IF l_right(h.node, n) # NULL THEN FreeWalk_keeplocked(h, l_right(h.node, n))
  ELSE IF h.node[n].info # NULL THEN [h EXCEPT !.abort = TRUE]
  ELSE LET parent == h.node[n].parent
           h1     == IF h.node[n].lock > 0 THEN h
                     ELSE bgp_node_free([h EXCEPT !.count = @ - 1], n)
       IN IF parent # NULL
          THEN FreeWalk_keeplocked(
                 [h1 EXCEPT !.node[parent].link =
                    IF l_left(h1.node, parent) = n THEN <<NULL, @[2]>>
                                                    ELSE <<@[1], NULL>>],
                 parent)
          ELSE h1

\* the loop of bgp_table_free, from node n: down to a leaf, left first; the
\* leaf is counted off, released and taken off its parent, where the loop
\* goes on; it ends after the node without a parent
RECURSIVE FreeWalk(_, _)
FreeWalk(h, n) ==
  IF n = NULL THEN h
  ELSE IF l_left(h.node, n) # NULL THEN FreeWalk(h, l_left(h.node, n))
  ELSE IF l_right(h.node, n) # NULL THEN FreeWalk(h, l_right(h.node, n))
  ELSE IF h.node[n].info # NULL THEN [h EXCEPT !.abort = TRUE]
  ELSE LET parent == h.node[n].parent
           h1     == bgp_node_free([h EXCEPT !.count = @ - 1,
                                             !.node[n].lock = 0], n)
       IN IF parent # NULL
          THEN FreeWalk(
                 [h1 EXCEPT !.node[parent].link =
                    IF l_left(h1.node, parent) = n THEN <<NULL, @[2]>>
                                                    ELSE <<@[1], NULL>>],
                 parent)
          ELSE h1

\* after the loop: assert (rt->count == 0); rt->lock = -54321; XFREE.  The
\* struct is gone: top is left without a value to follow
bgp_table_free(h) ==
  LET h1 == FreeWalk(h, h.top)
  IN IF h1.abort \/ h1.count # 0
     THEN [h1 EXCEPT !.abort = TRUE]
     ELSE [h1 EXCEPT !.lock = TableFreed, !.top = NULL]

bgp_table_unlock(h) ==
  IF ~(h.lock > 0)
  THEN [h EXCEPT !.abort = TRUE]
  ELSE LET h1 == [h EXCEPT !.lock = @ - 1]
       IN IF h1.lock = 0 THEN bgp_table_free(h1) ELSE h1

\* rt is the caller's pointer, which the call sets to NULL
bgp_table_finish(h, rt) == IF rt # NULL THEN bgp_table_unlock(h) ELSE h

\* the table is there for its callers
Live == table_lock > 0

\* a new table at the address of the one that was freed; the callers have
\* dropped the handles they had on the nodes of that one
TableInit ==
  /\ ~abort
  /\ table_lock = TableFreed
  /\ SetHeap(bgp_table_init(Heap))
  /\ Called("table_init", NoArg, TheTable)
  /\ held' = [r \in Recs |-> 0]
  /\ UNCHANGED iter

TableLock ==
  /\ ~abort
  /\ Live
  /\ table_lock < MaxTableLock
  /\ SetHeap(bgp_table_lock(Heap))
  /\ Called("table_lock", NoArg, NULL)
  /\ UNCHANGED <<held, iter>>

TableUnlock ==
  /\ ~abort
  /\ Live
  /\ LET h == bgp_table_unlock(Heap)
     IN /\ SetHeap(h)
        /\ Called("table_unlock", TheTable, NULL)
  /\ UNCHANGED <<held, iter>>

TableFinish(rt) ==
  /\ ~abort
  /\ Live
  /\ LET h == bgp_table_finish(Heap, rt)
     IN /\ SetHeap(h)
        /\ Called("table_finish", rt, NULL)
  /\ UNCHANGED <<held, iter>>

\* tables that are made, used through get, lock, unlock, set and clear of
\* info, shared, given up and freed, one after the other
NextLife ==
  /\ phase = "api"
  /\ Scenario
  /\ \/ TableInit
     \/ TableLock
     \/ TableUnlock
     \/ \E rt \in {NULL, TheTable} : TableFinish(rt)
     \/ Live /\ \E p \in ApiPrefixes : Get(p)
     \/ Live /\ \E n \in Recs : Lock(n)
     \/ Live /\ \E n \in Recs : Unlock(n)
     \/ Live /\ \E n \in Recs : SetInfo(n)
     \/ Live /\ \E n \in Recs : ClearInfo(n)

SpecLife == Init /\ [][NextLife]_vars

(***************************************************************************)
(* C12: bgp_table_init gives a table with lock 1 and count 0.  The table   *)
(* is freed by the bgp_table_unlock or bgp_table_finish that takes its     *)
(* lock from 1 to 0, and by no other step.  The free releases every node   *)
(* of the trie to the slab, once each, whatever the node's lock and the    *)
(* shape of the tree, and its final assertion count == 0 holds, provided   *)
(* no node has info.                                                       *)
(***************************************************************************)
\* the free-list from record r on, as a sequence (cut at length d, so that
\* it ends on a damaged list too)
RECURSIVE FreeSeqD(_, _, _)
FreeSeqD(nd, r, d) ==
  IF r = NULL \/ d = 0 THEN <<>> ELSE <<r>> \o FreeSeqD(nd, nd[r].wq_next, d - 1)

FreeSeq(nd, r) == FreeSeqD(nd, r, NRec + 1)

FreeSet(nd, r) == {FreeSeq(nd, r)[i] : i \in 1..Len(FreeSeq(nd, r))}

C12_Lifecycle ==
  [][/\ op' = "table_init" => table_lock' = 1 /\ count' = 0 /\ top' = NULL
     /\ (table_lock # TableFreed /\ table_lock' = TableFreed) =>
          /\ table_lock = 1
          /\ op' \in {"table_unlock", "table_finish"}
          /\ arg' = TheTable
     /\ (op' \in {"table_unlock", "table_finish"} /\ arg' = TheTable) =>
          IF table_lock > 1
          THEN /\ table_lock' = table_lock - 1
               /\ UNCHANGED <<node, top, count, rn_frees>>
          ELSE (\A n \in Linked : node[n].info = NULL) =>
                 /\ ~abort'
                 /\ table_lock' = TableFreed
                 /\ count' = 0
                 /\ Len(FreeSeq(node', rn_frees')) = Len(FreeSeq(node, rn_frees)) + count
                 /\ FreeSet(node', rn_frees') = FreeSet(node, rn_frees) \cup Linked
                 /\ Cardinality(FreeSet(node', rn_frees')) = Len(FreeSeq(node', rn_frees'))]_vars

\* a table was given up by its last holder through bgp_table_finish while
\* callers held two handles on one of its nodes: the free went through, and
\* the slab has that record and records nobody held
C12_Witness ==
  /\ op = "table_finish"
  /\ table_lock = TableFreed
  /\ ~abort
  /\ Len(FreeSeq(node, rn_frees)) >= 3
  /\ \E n, m \in FreeSet(node, rn_frees) : held[n] = 2 /\ held[m] = 0

(***************************************************************************)
(* C13, as the claim has it: between API calls every node linked in the    *)
(* trie has lock > 0.                                                      *)
(***************************************************************************)
C13_AllLocked == \A n \in Linked : node[n].lock > 0

(***************************************************************************)
(* C13, amended: between API calls no linked node has a negative lock,     *)
(* every node a caller holds or the iterator is at has lock > 0, and a     *)
(* linked node with lock 0 is a glue node: it has two children and nobody  *)
(* holds it.                                                               *)
(***************************************************************************)
C13_LockedOrGlue ==
  /\ ~abort
  /\ \A n \in Linked :
       /\ node[n].lock >= 0
       /\ (held[n] > 0 \/ iter = n) => node[n].lock > 0
       /\ node[n].lock = 0 =>
            /\ Cardinality(Children(node, n)) = 2
            /\ held[n] = 0
            /\ iter # n

\* the caller's last handle on 10.0.0.0/8 was released while the node had
\* two children: it stays linked with lock 0
C13_Witness ==
  /\ op = "unlock"
  /\ arg \in Linked
  /\ node[arg].p = P10
  /\ node[arg].lock = 0
  /\ Cardinality(Children(node, arg)) = 2

(***************************************************************************)
(* An MPLS-VPN table: every bgp_node_get supplies the same prn.            *)
(***************************************************************************)
\* the prn of the table: a node of another table, not one of Recs
R == NRec + 1

\* bgp_node_get where qassert is compiled out: a node of p's length is
\* locked and returned whatever its prn
bgp_node_get_noqassert(h, p, prn) ==
  LET w == GetWalk(h.node, h.top, p, NULL)
  IN IF w.hit
     THEN [h |-> WithNode(h, bgp_lock_node(h.node, w.node)), ret |-> w.node]
     ELSE bgp_node_get(h, p, prn)

\* bgp_node_get(table, p, R), in a build with qassert (qdebug) or without
GetVpn(p, qdebug) ==
  /\ ~abort
  /\ GetNeed(Heap, p) <= Available(Heap)
  /\ LET r == IF qdebug THEN bgp_node_get(Heap, p, R)
                        ELSE bgp_node_get_noqassert(Heap, p, R)
     IN /\ ~r.h.abort => r.h.node[r.ret].lock <= MaxLock
        /\ SetHeap(r.h)
        /\ Keep(r.ret)
        /\ Called("get", p, r.ret)
  /\ UNCHANGED iter

NextVpn ==
  /\ phase = "api"
  /\ Scenario
  /\ \/ \E p \in ApiPrefixes, qdebug \in BOOLEAN : GetVpn(p, qdebug)
     \/ \E n \in Recs : Unlock(n)

SpecVpn == Init /\ [][NextVpn]_vars

(***************************************************************************)
(* C14: on a table where every bgp_node_get supplies the prn R, a get that *)
(* finds the node of the requested prefix finds its prn equal to R: the    *)
(* assertion node->prn == prn does not fail, and the node returned has     *)
(* prn = R.                                                                *)
(***************************************************************************)
C14_PrnKept ==
  /\ ~abort
  /\ op = "get" => node[ret].prn = R

(***************************************************************************)
(* The scenario of glue creation: prefixes are got one by one from an      *)
(* empty table, each once, the nodes kept locked.  Here visited is the     *)
(* prefixes got so far, in the order of the calls.                         *)
(***************************************************************************)
ScenPrefixes == {P10, P10_128, P11, P10_1, P20}

InitScen == InitCommon /\ phase = "scenario"

ScenGet(p) ==
  /\ phase = "scenario"
  /\ \A i \in 1..Len(visited) : visited[i] # p
  /\ Get(p)
  /\ visited' = Append(visited, p)
  /\ UNCHANGED <<phase, inserted>>

NextScen == \E p \in ScenPrefixes : ScenGet(p)

SpecScen == InitScen /\ [][NextScen]_vars

\* the tree has a root of length 7 with 10.0.0.0/8 left and 11.0.0.0/8 right
RootIsGlue7 ==
  /\ top # NULL
  /\ node[top].p.prefixlen = 7
  /\ l_left(node, top) # NULL
  /\ node[l_left(node, top)].p = P10
  /\ l_right(node, top) # NULL
  /\ node[l_right(node, top)].p = P11

(***************************************************************************)
(* C15, as the claim has it: from an empty table, after the gets of        *)
(* 10.0.0.0/8 and 10.128.0.0/9 table.count is 2, and after the further get *)
(* of 11.0.0.0/8 table.count is 3, the root has length 7, its left child   *)
(* is 10.0.0.0/8 and its right child 11.0.0.0/8.                           *)
(***************************************************************************)
C15_GlueCount3 ==
  /\ visited = <<P10, P10_128>> => count = 2
  /\ visited = <<P10, P10_128, P11>> => count = 3 /\ RootIsGlue7

(***************************************************************************)
(* C15, amended: after the gets of 10.0.0.0/8 and 10.128.0.0/9 table.count *)
(* is 2, and after the further get of 11.0.0.0/8 table.count is 4 (the     *)
(* three nodes got and the glue node), the root has length 7, its left     *)
(* child is 10.0.0.0/8 and its right child 11.0.0.0/8.                     *)
(***************************************************************************)
C15_GlueCount4 ==
  /\ ~abort
  /\ visited = <<P10, P10_128>> => count = 2
  /\ visited = <<P10, P10_128, P11>> =>
       /\ count = 4
       /\ RootIsGlue7
       /\ node[top].lock = 0
       /\ Cardinality(Linked) = 4

\* the third get of the scenario has returned 11.0.0.0/8, a child of the root
C15_Witness ==
  /\ visited = <<P10, P10_128, P11>>
  /\ op = "get"
  /\ arg = P11
  /\ node[ret].parent = top

(***************************************************************************)
(* C16: the glue rule.  After every API call, every linked node with lock  *)
(* 0 has a left and a right child.  When bgp_unlock_node, directly or in   *)
(* the hand-off of the iterator, takes to zero the lock of a node with two *)
(* children, bgp_node_delete returns at once: the node stays, and no link, *)
(* table.count, table.top or the free-list changes.                        *)
(***************************************************************************)
\* the node the call released a lock of
Released(o, a) == IF o = "next_until" THEN a[1] ELSE a

C16_GlueRule ==
  [][/\ ~abort'
     /\ \A n \in Subtree(node', top') :
          node'[n].lock = 0 => l_left(node', n) # NULL /\ l_right(node', n) # NULL
     /\ (/\ op' \in {"unlock", "next", "next_until"}
         /\ node[Released(op', arg')].lock = 1
         /\ Cardinality(Children(node, Released(op', arg'))) = 2) =>
          /\ node'[Released(op', arg')].lock = 0
          /\ Subtree(node', top') = Linked
          /\ \A x \in Linked : /\ node'[x].link = node[x].link
                               /\ node'[x].parent = node[x].parent
          /\ UNCHANGED <<top, count, rn_frees, rn_pools>>
          /\ FreeSeq(node', rn_frees') = FreeSeq(node, rn_frees)]_vars

\* the iterator stepped off a node with two children that nobody else
\* held: the node is still linked, with lock 0
C16_Witness ==
  /\ op \in {"next", "next_until"}
  /\ Released(op, arg) \in Linked
  /\ node[Released(op, arg)].lock = 0
  /\ Cardinality(Children(node, Released(op, arg))) = 2
  /\ iter = ret
  /\ ret # NULL

(***************************************************************************)
(* C17: the node that bgp_route_next or bgp_route_next_until returns is    *)
(* live after the hand-off, also when the unlock of the node handed in     *)
(* deleted that node and collapsed its lock-0 parent: it is reachable from *)
(* table.top, is not on the free-list, has lock >= 1 and the prefix it had *)
(* before the call.  (A released record has no field but wq_next here, so  *)
(* a step that read a released node could not be evaluated.)               *)
(***************************************************************************)
C17_ReturnedLive ==
  [][(op' \in {"next", "next_until"} /\ ret' # NULL) =>
       /\ ~abort'
       /\ ret' \in Subtree(node', top')
       /\ ret' \notin FreeSet(node', rn_frees')
       /\ node'[ret'].lock >= 1
       /\ ret' \in Linked
       /\ node'[ret'].p = node[ret'].p]_vars

\* the step released the node handed in and then its parent, a glue node
\* nobody held; the node returned, their sibling, is now table.top
C17_Witness ==
  /\ op = "next"
  /\ ret # NULL
  /\ top = ret
  /\ rn_frees # NULL
  /\ rn_frees # arg
  /\ node[rn_frees].wq_next = arg
  /\ node[ret].lock >= 1

(***************************************************************************)
(* route_common on its own: it is applied to pairs of canonical prefixes   *)
(* of one family, the result written into a zeroized prefix; arg is the    *)
(* pair and ret the result.                                                *)
(***************************************************************************)
\* the address bytes with every bit from len on cleared
Masked(len, bytes) ==
  [j \in 1..AddrBytes |->
     IF 8 * j <= len THEN bytes[j]
     ELSE IF 8 * (j - 1) >= len THEN 0
     ELSE AndB(bytes[j], maskbit[(len % 8) + 1])]

AsTuple(b) == <<b[1], b[2], b[3], b[4]>>

CommonLens == {0, 1, 7, 8, 9, 12, 15, 16, 17, 24, 31, 32}

CommonAddrs == {<<b1, b2, b3, b4>> : b1 \in {10, 11, 138}, b2 \in {0, 1, 128, 255},
                                     b3 \in {0, 2}, b4 \in {0, 3}}

CommonPrefixes == {Pfx(len, AsTuple(Masked(len, a))) : len \in CommonLens, a \in CommonAddrs}

\* the pair of prefixes is drawn at the start
InitCommonPfx ==
  /\ node = [r \in Recs |-> ZeroNode]
  /\ top = NULL
  /\ count = 0
  /\ table_lock = 1
  /\ rn_frees = NULL
  /\ rn_pools = 0
  /\ abort = FALSE
  /\ held = [r \in Recs |-> 0]
  /\ iter = NULL
  /\ op = "init" /\ ret = NULL
  /\ arg \in CommonPrefixes \X CommonPrefixes
  /\ visited = <<>>
  /\ inserted = {}
  /\ phase = "route_common"

Common ==
  /\ phase = "route_common"
  /\ op = "init"
  /\ LET c == route_common(arg[1], arg[2], ZeroPrefix)
     IN Called("route_common", arg,
               [family |-> c.family, prefixlen |-> c.prefixlen, b |-> AsTuple(c.b)])
  /\ UNCHANGED <<node, top, count, table_lock, rn_frees, rn_pools, abort,
                 held, iter, phase, visited, inserted>>

NextCommon == Common

SpecCommon == InitCommonPfx /\ [][NextCommon]_vars

Min(x, y) == IF x <= y THEN x ELSE y

\* c is the longest prefix that covers a and b, in canonical form
LongestCommon(a, b, c) ==
  /\ c.prefixlen <= Min(a.prefixlen, b.prefixlen)
  /\ \A i \in 0..(c.prefixlen - 1) :
       prefix_bit(c.b, i) = prefix_bit(a.b, i) /\ prefix_bit(c.b, i) = prefix_bit(b.b, i)
  /\ \/ c.prefixlen = Min(a.prefixlen, b.prefixlen)
     \/ prefix_bit(a.b, c.prefixlen) # prefix_bit(b.b, c.prefixlen)
  /\ \A i \in c.prefixlen..(8 * AddrBytes - 1) : prefix_bit(c.b, i) = 0
  /\ a = b => c.prefixlen = a.prefixlen /\ c.b = a.b

Limit == CHOOSE n \in Linked : node[n].p = visited[1]

UntilStart(limit, mode) ==
  /\ ~abort
  /\ phase = "build"
  /\ limit \in Linked
  /\ held[limit] > 0
  /\ SetHeap(WithNode(Heap, bgp_lock_node(node, limit)))
  /\ iter' = limit
  /\ visited' = <<node[limit].p>>
  /\ phase' = mode
  /\ Called("lock", limit, limit)
  /\ UNCHANGED <<held, inserted>>

UntilNext ==
  /\ ~abort
  /\ phase \in {"walk", "walkdel"}
  /\ LET r == bgp_route_next_until(Heap, iter, Limit)
     IN /\ SetHeap(r.h)
        /\ iter' = r.ret
        /\ Called("next_until", <<iter, Limit>>, r.ret)
        /\ visited' = IF r.ret = NULL THEN visited ELSE Append(visited, r.h.node[r.ret].p)
        /\ phase' = IF r.ret # NULL THEN phase
                    ELSE IF phase = "walk" THEN "done" ELSE "donedel"
  /\ UNCHANGED <<held, inserted>>

UntilRelease ==
  /\ ~abort
  /\ phase = "walkdel"
  /\ iter # Limit
  /\ node[iter].info # NULL
  /\ held[iter] > 0
  /\ SetHeap(bgp_unlock_node(WithNode(Heap, [node EXCEPT ![iter].info = NULL]), iter))
  /\ held' = [held EXCEPT ![iter] = @ - 1]
  /\ Called("unlock", iter, NULL)
  /\ UNCHANGED <<iter, phase, visited, inserted>>

NextUntil ==
  \/ \E p \in WalkPrefixes : Insert(p)
  \/ \E limit \in Recs, mode \in {"walk", "walkdel"} : UntilStart(limit, mode)
  \/ UntilNext
  \/ UntilRelease

SpecUntil == InitWalk /\ [][NextUntil]_vars

(***************************************************************************)
(* C19: for a node n in the subtree of a held node limit,                  *)
(* bgp_route_next_until(n, limit) returns what bgp_route_next(n) returns   *)
(* if that node is in limit's subtree, and NULL if not; it returns no node *)
(* outside the subtree, and takes exactly one lock off n, as               *)
(* bgp_route_next does.  On a table the walk does not change, the calls    *)
(* from limit on return the nodes of limit's subtree after limit in        *)
(* pre-order, and then NULL.                                               *)
(***************************************************************************)
\* the prefixes of the subtree of n, in pre-order
SubtreePrefixes(n) == [i \in 1..Len(PreOrder(node, n)) |-> node[PreOrder(node, n)[i]].p]

UntilPreOrder ==
  /\ ~abort
  /\ phase = "walk" =>
       /\ iter \in Subtree(node, Limit)
       /\ visited = SubSeq(SubtreePrefixes(Limit), 1, Len(visited))
       /\ node[iter].p = visited[Len(visited)]
  /\ phase = "done" =>
       /\ iter = NULL
       /\ visited = SubtreePrefixes(Limit)
       /\ \A n \in Linked : node[n].lock = held[n]

C19_NextUntil ==
  [][/\ UntilPreOrder'
     /\ op' = "next_until" =>
          LET n     == arg'[1]
              limit == arg'[2]
              rn    == bgp_route_next(Heap, n)
              sub   == Subtree(node, limit)
          IN /\ n \in sub
             /\ ret' = IF rn.ret \in sub THEN rn.ret ELSE NULL
             /\ ret' # NULL => ret' \in Subtree(node', limit) /\ ret' # limit
             /\ IF n \in Subtree(node', top')
                THEN /\ node'[n].lock = node[n].lock - 1
                     /\ node'[n].lock = rn.h.node[n].lock
                ELSE /\ node[n].lock = 1
                     /\ n \notin Subtree(rn.h.node, rn.h.top)]_vars

\* a walk of the subtree of 10.0.0.0/8, which is not the top of the table,
\* has ended: it returned the two nodes below it
C19_Witness ==
  /\ phase = "done"
  /\ op = "next_until"
  /\ ret = NULL
  /\ visited = <<P10, P10_1, P10_128>>
  /\ top # NULL
  /\ node[top].p # P10

(***************************************************************************)
(* C20: the slab, over gets, unlocks and table frees.  No record is both   *)
(* linked in the trie and on the free-list, none is on the free-list       *)
(* twice, and the record bgp_node_calloc would hand out next is not        *)
(* linked.  The records a get takes are the head of the free-list first    *)
(* (a pool is added only when the list is empty) and come zeroed: but for  *)
(* what the get sets, their lock, info, prn and wq_next are zero and their *)
(* links lead to linked nodes only.  The record released last is the head  *)
(* of the free-list, the next to be handed out.                            *)
(***************************************************************************)
C20_Slab ==
  [][~abort' =>
       LET after    == Subtree(node', top')
           free     == FreeSet(node, rn_frees)
           freeAft  == FreeSet(node', rn_frees')
           new      == after \ Linked
           released == Linked \ after
       IN /\ after \cap freeAft = {}
          /\ Len(FreeSeq(node', rn_frees')) = Cardinality(freeAft)
          /\ Available(Heap') > 0 =>
               /\ bgp_node_calloc(Heap').rn \notin after
               /\ rn_frees' # NULL => bgp_node_calloc(Heap').rn = rn_frees'
          /\ op' = "get" =>
               /\ \A n \in Linked : n \in after /\ node'[n].p = node[n].p
               /\ new \cap Linked = {}
               /\ (new # {} /\ rn_frees # NULL) => rn_frees \in new
               /\ (new # {} /\ rn_frees = NULL) => rn_pools' = rn_pools + 1
               /\ Cardinality(new) <= Cardinality(free) => new \subseteq free
               /\ \A n \in new :
                    /\ node'[n].lock = IF n = ret' THEN 1 ELSE 0
                    /\ node'[n].info = NULL
                    /\ node'[n].prn = NULL
                    /\ node'[n].wq_next = NULL
                    /\ node'[n].parent \in after \cup {NULL}
                    /\ Children(node', n) \subseteq after
          /\ released # {} =>
               /\ rn_frees' \in released
               /\ freeAft = free \cup released
               /\ Len(FreeSeq(node', rn_frees')) =
                    Len(FreeSeq(node, rn_frees)) + Cardinality(released)]_vars

\* a get made the only node of a table out of a record that had been
\* released: two pools are there, and their other three records are free
C20_Witness ==
  /\ op = "get"
  /\ count = 1
  /\ top = ret
  /\ node[ret].lock = 1
  /\ rn_pools = 2
  /\ Len(FreeSeq(node, rn_frees)) = 3

====
